---- MODULE Spec2Model ----
(***************************************************************************)
(* Model of @syntrojs/singleton: the Registry class (a Map from names to   *)
(* entries), its operations register / get / getEntry / has / list / clear *)
(* and the module-level accessor getRegistry().                            *)
(*                                                                         *)
(* A JavaScript value is a record                                          *)
(*   [tag, val, ref, hasCtor, cls]                                         *)
(* tag     : the typeof-like kind of the value                             *)
(* val     : its contents, printed (two objects can have equal contents)   *)
(* ref     : the identity of an object (0 for primitives); two objects are *)
(*           the same reference iff their ref is the same                  *)
(* hasCtor : whether reading .constructor on the value yields a function   *)
(* cls     : that function (a class handle); FunctionName gives its .name  *)
(***************************************************************************)
EXTENDS Integers, Sequences, FiniteSets, TLC

VARIABLES heap, handle, last, pending, done

vars == <<heap, handle, last, pending, done>>

\* ------------------------------------------------------------------ bounds

\* Number of distinct names the callers use.
NumNames == 2

NamePool == <<"cache", "session", "metrics", "queue">>

Names == {NamePool[i] : i \in 1..NumNames}

\* Number of Registry objects on the heap, registryInstance included.
MaxRegistries == 3

\* Holders of a registry reference (r1 and r2 of the tests).
Callers == {"r1", "r2"}

\* ------------------------------------------------------------- JS values

Undefined == [tag |-> "undefined", val |-> "", ref |-> 0, hasCtor |-> FALSE, cls |-> ""]

Null == [tag |-> "null", val |-> "", ref |-> 0, hasCtor |-> FALSE, cls |-> ""]

Str(s) == [tag |-> "string", val |-> s, ref |-> 0, hasCtor |-> TRUE, cls |-> "String"]

Num(s) == [tag |-> "number", val |-> s, ref |-> 0, hasCtor |-> TRUE, cls |-> "Number"]

Bool(s) == [tag |-> "boolean", val |-> s, ref |-> 0, hasCtor |-> TRUE, cls |-> "Boolean"]

\* new C() for a class C, with the given contents, allocated at address r.
Obj(r, c, v) == [tag |-> "object", val |-> v, ref |-> r, hasCtor |-> TRUE, cls |-> c]

\* Two instances of the same class with equal contents: equal, not identical.
objA == Obj(1, "TestClass", "{value:test}")

objB == Obj(2, "TestClass", "{value:test}")

\* The .name of a constructor function; an anonymous class has the name "".
FunctionName(c) == IF c = "Anon" THEN "" ELSE c

\* JavaScript truthiness (the operand of ||).
Truthy(v) ==
    CASE v.tag \in {"undefined", "null"} -> FALSE
      [] v.tag = "string" -> v.val # ""
      [] v.tag = "number" -> v.val # "0"
      [] v.tag = "boolean" -> v.val = "true"
      [] OTHER -> TRUE

\* ------------------------------------------------ Map<string, RegistryEntry>
\* A Map is the sequence of its [key, value] pairs in insertion order.

MapHas(m, k) == \E i \in 1..Len(m) : m[i].key = k

MapGet(m, k) ==
    IF MapHas(m, k)
    THEN m[CHOOSE i \in 1..Len(m) : m[i].key = k].value
    ELSE Undefined

MapSet(m, k, v) ==
    IF MapHas(m, k)
    THEN [i \in 1..Len(m) |-> IF m[i].key = k THEN [key |-> k, value |-> v] ELSE m[i]]
    ELSE Append(m, [key |-> k, value |-> v])

MapValues(m) == [i \in 1..Len(m) |-> m[i].value]

MapClear(m) == <<>>

\* ------------------------------------------------------- call outcomes
\* The outcome of a call: the error it threw ("" when it returned), the
\* error's message, the value it returned and the Map it leaves behind.

Returned(m, v) == [threw |-> "", message |-> "", ret |-> v, entries |-> m]

Threw(m, kind, msg) == [threw |-> kind, message |-> msg, ret |-> Undefined, entries |-> m]

\* ------------------------------------------------------------- Registry

\* Faulty variant of constructorName: the constructor is never read.
constructorName_Unknown(instance) == "Unknown"

\* Faulty variant of constructorName: the || "Unknown" fallback is missing,
\* an empty or absent name is stored as the empty string.
constructorName_NoFallback(instance) ==
    IF instance.hasCtor THEN FunctionName(instance.cls) ELSE ""

\* instanceObj.constructor?.name || "Unknown"
constructorName(instance) ==
    IF instance.hasCtor /\ FunctionName(instance.cls) # ""
    THEN FunctionName(instance.cls)
    ELSE "Unknown"

\* Faulty variant of newEntry: the constructor is kept only when it was
\* needed to infer the type; with a label the handle is Object.
newEntry_HandleOnlyInferred(name, instance, type) ==
    [name |-> name,
     instance |-> instance,
     type |-> IF Truthy(type) THEN type.val ELSE constructorName(instance),
     constructor |-> IF instance.hasCtor /\ ~Truthy(type) THEN instance.cls ELSE "Object"]

\* Faulty variant of newEntry: the type label is written to the name field
\* too.
newEntry_NameIsType(name, instance, type) ==
    [name |-> IF Truthy(type) THEN type.val ELSE constructorName(instance),
     instance |-> instance,
     type |-> IF Truthy(type) THEN type.val ELSE constructorName(instance),
     constructor |-> IF instance.hasCtor THEN instance.cls ELSE "Object"]

\* The entry register builds for an instance (lines 34-39).
newEntry(name, instance, type) ==
    [name |-> name,
     instance |-> instance,
     type |-> IF Truthy(type) THEN type.val ELSE constructorName(instance),
     constructor |-> IF instance.hasCtor THEN instance.cls ELSE "Object"]

\* Faulty variants of register, used to test the properties below.
\* The duplicate check is missing: a second registration overwrites.
register_Overwrite(entries, name, instance, type) ==
    IF instance.tag \in {"null", "undefined"}
    THEN Threw(entries, "TypeError", "Cannot read properties of " \o instance.tag)
    ELSE Returned(MapSet(entries, name, newEntry(name, instance, type)), Undefined)

\* The entry is stored before the duplicate check.
register_StoreThenThrow(entries, name, instance, type) ==
    IF instance.tag \in {"null", "undefined"}
    THEN Threw(entries, "TypeError", "Cannot read properties of " \o instance.tag)
    ELSE IF MapHas(entries, name)
    THEN Threw(MapSet(entries, name, newEntry(name, instance, type)),
               "Error", "Instance '" \o name \o "' already registered")
    ELSE Returned(MapSet(entries, name, newEntry(name, instance, type)), Undefined)

\* The Map is a bounded cache: a registration beyond the first evicts the
\* oldest entry.
register_EvictOldest(entries, name, instance, type) ==
    IF MapHas(entries, name)
    THEN Threw(entries, "Error", "Instance '" \o name \o "' already registered")
    ELSE IF instance.tag \in {"null", "undefined"}
    THEN Threw(entries, "TypeError", "Cannot read properties of " \o instance.tag)
    ELSE Returned(MapSet(IF entries = <<>> THEN entries ELSE Tail(entries),
                         name, newEntry(name, instance, type)),
                  Undefined)

\* The new entry goes to the front of the Map instead of its end.
register_Prepend(entries, name, instance, type) ==
    IF MapHas(entries, name)
    THEN Threw(entries, "Error", "Instance '" \o name \o "' already registered")
    ELSE IF instance.tag \in {"null", "undefined"}
    THEN Threw(entries, "TypeError", "Cannot read properties of " \o instance.tag)
    ELSE Returned(<<[key |-> name, value |-> newEntry(name, instance, type)]>> \o entries,
                  Undefined)

\* Instances are unique too: an instance that is registered under another
\* name is rejected.
register_UniqueInstance(entries, name, instance, type) ==
    IF MapHas(entries, name)
         \/ \E i \in 1..Len(entries) : entries[i].value.instance = instance
    THEN Threw(entries, "Error", "Instance '" \o name \o "' already registered")
    ELSE IF instance.tag \in {"null", "undefined"}
    THEN Threw(entries, "TypeError", "Cannot read properties of " \o instance.tag)
    ELSE Returned(MapSet(entries, name, newEntry(name, instance, type)), Undefined)

\* The entry is built and never stored.
register_NoStore(entries, name, instance, type) ==
    IF MapHas(entries, name)
    THEN Threw(entries, "Error", "Instance '" \o name \o "' already registered")
    ELSE IF instance.tag \in {"null", "undefined"}
    THEN Threw(entries, "TypeError", "Cannot read properties of " \o instance.tag)
    ELSE Returned(entries, Undefined)

register(entries, name, instance, type) ==
    IF MapHas(entries, name)
    THEN Threw(entries, "Error", "Instance '" \o name \o "' already registered")
    ELSE IF instance.tag \in {"null", "undefined"}
    THEN \* reading .constructor of null or undefined
         Threw(entries, "TypeError", "Cannot read properties of " \o instance.tag)
    ELSE LET entry == newEntry(name, instance, type)
         IN  Returned(MapSet(entries, name, entry), Undefined)

\* register in its two parts, for the callers of SpecSteps.
\* Lines 26-28: the duplicate check.
registerCheck(entries, name) ==
    IF MapHas(entries, name)
    THEN Threw(entries, "Error", "Instance '" \o name \o "' already registered")
    ELSE Returned(entries, Undefined)

\* Lines 30-41: the entry is built and stored.
registerStore(entries, name, instance, type) ==
    IF instance.tag \in {"null", "undefined"}
    THEN Threw(entries, "TypeError", "Cannot read properties of " \o instance.tag)
    ELSE Returned(MapSet(entries, name, newEntry(name, instance, type)), Undefined)

\* Faulty variants of get.
\* A structural copy is returned: equal contents at a new address.
get_Copy(entries, name) ==
    LET entry == MapGet(entries, name)
    IN  IF entry = Undefined
        THEN Threw(entries, "Error", "Instance '" \o name \o "' not found")
        ELSE Returned(entries,
                      IF entry.instance.tag = "object"
                      THEN [entry.instance EXCEPT !.ref = @ + 100]
                      ELSE entry.instance)

\* The entry read moves to the end of the Map, as in a least-recently-used
\* cache.
get_Touch(entries, name) ==
    LET entry == MapGet(entries, name)
    IN  IF entry = Undefined
        THEN Threw(entries, "Error", "Instance '" \o name \o "' not found")
        ELSE Returned(Append(SelectSeq(entries, LAMBDA p : p.key # name),
                             [key |-> name, value |-> entry]),
                      entry.instance)

\* The instance is tested instead of the entry: a name holding a falsy
\* instance is reported as not found.
get_FalsyMissing(entries, name) ==
    LET entry == MapGet(entries, name)
    IN  IF entry = Undefined \/ ~Truthy(entry.instance)
        THEN Threw(entries, "Error", "Instance '" \o name \o "' not found")
        ELSE Returned(entries, entry.instance)

\* A missing name yields undefined instead of an error.
get_OrUndefined(entries, name) ==
    LET entry == MapGet(entries, name)
    IN  IF entry = Undefined
        THEN Returned(entries, Undefined)
        ELSE Returned(entries, entry.instance)

\* The entry is handed out once: get removes it from the Map.
get_Take(entries, name) ==
    LET entry == MapGet(entries, name)
    IN  IF entry = Undefined
        THEN Threw(entries, "Error", "Instance '" \o name \o "' not found")
        ELSE Returned(SelectSeq(entries, LAMBDA p : p.key # name), entry.instance)

get(entries, name) ==
    LET entry == MapGet(entries, name)
    IN  IF entry = Undefined
        THEN Threw(entries, "Error", "Instance '" \o name \o "' not found")
        ELSE Returned(entries, entry.instance)

\* Faulty variant of getEntry: looking an entry up drops the entries
\* registered before it.
getEntry_Compacts(entries, name) ==
    Returned(IF MapHas(entries, name)
             THEN SubSeq(entries, CHOOSE i \in 1..Len(entries) : entries[i].key = name,
                         Len(entries))
             ELSE entries,
             MapGet(entries, name))

\* Faulty variant of getEntry: a missing name throws, as in get.
getEntry_Throws(entries, name) ==
    IF MapHas(entries, name)
    THEN Returned(entries, MapGet(entries, name))
    ELSE Threw(entries, "Error", "Instance '" \o name \o "' not found")

getEntry(entries, name) == Returned(entries, MapGet(entries, name))

\* Faulty variant of has: the instance is tested instead of the key, so a
\* name holding a falsy instance counts as absent.
has_InstanceTruthy(entries, name) ==
    Returned(entries, MapHas(entries, name) /\ Truthy(MapGet(entries, name).instance))

has(entries, name) == Returned(entries, MapHas(entries, name))

\* Faulty variants of list.
\* The stored entries are returned as they are, instance and constructor
\* included.
list_WholeEntries(entries) == Returned(entries, MapValues(entries))

\* One element per type label: entries whose label was already listed are
\* left out.
list_OnePerType(entries) ==
    LET values == MapValues(entries)
        keep == {i \in 1..Len(values) :
                   \A j \in 1..(i - 1) : values[j].type # values[i].type}
        pick[k \in 0..Len(values)] ==
            IF k = 0 THEN <<>>
            ELSE IF k \in keep
                 THEN Append(pick[k - 1], [name |-> values[k].name, type |-> values[k].type])
                 ELSE pick[k - 1]
    IN  Returned(entries, pick[Len(values)])

list(entries) ==
    LET values == MapValues(entries)
    IN  Returned(entries, [i \in 1..Len(values) |->
                             [name |-> values[i].name, type |-> values[i].type]])

\* Faulty variant of clear: only the oldest entry is removed.
clear_DropOne(entries) ==
    Returned(IF entries = <<>> THEN entries ELSE Tail(entries), Undefined)

clear(entries) == Returned(MapClear(entries), Undefined)

\* const registryInstance = new Registry(): the first object of the heap.
registryInstance == 1

\* ------------------------------------------------------------- the state
\* heap    : the #entries Map of every Registry object, by address
\* handle  : the Registry reference each caller holds (0: none yet)
\* last    : the last call made and its outcome
\* pending : the register call each caller has scheduled and not yet run
\* done    : the outcome of each caller's scheduled call

NoCall == [op |-> "none", name |-> "", instance |-> Undefined, type |-> Undefined]

Call(op, name, instance, type) ==
    [op |-> op, name |-> name, instance |-> instance, type |-> type]

\* What caller c saw of its call: the call, and how it ended.
Record(c, call, out) ==
    [by |-> c, op |-> call.op, name |-> call.name, instance |-> call.instance,
     type |-> call.type, threw |-> out.threw, message |-> out.message, ret |-> out.ret]

NoOutcome == Record("", NoCall, Returned(<<>>, Undefined))

Init ==
    /\ heap = << <<>> >>
    /\ handle = [c \in Callers |-> 0]
    /\ last = NoOutcome
    /\ pending = [c \in Callers |-> NoCall]
    /\ done = [c \in Callers |-> NoOutcome]

\* Faulty variant of Apply: #entries is a static field, one Map for all
\* Registry objects.
Apply_Static(c, call, out) ==
    /\ handle[c] # 0
    /\ heap' = [i \in 1..Len(heap) |-> out.entries]
    /\ last' = Record(c, call, out)
    /\ UNCHANGED <<handle, pending, done>>

\* A caller's call on the registry it holds: the Map is replaced by the one
\* the call leaves behind and the outcome is recorded.
Apply(c, call, out) ==
    /\ handle[c] # 0
    /\ heap' = [heap EXCEPT ![handle[c]] = out.entries]
    /\ last' = Record(c, call, out)
    /\ UNCHANGED <<handle, pending, done>>

\* Faulty variant of getRegistry: every call builds a Registry of its own.
GetRegistry_New(c) ==
    /\ Len(heap) < 3
    /\ heap' = Append(heap, <<>>)
    /\ handle' = [handle EXCEPT ![c] = Len(heap) + 1]
    /\ last' = Record(c, Call("getRegistry", "", Undefined, Undefined),
                      Returned(<<>>, Undefined))
    /\ UNCHANGED <<pending, done>>

GetRegistry(c) ==
    /\ handle' = [handle EXCEPT ![c] = registryInstance]
    /\ last' = Record(c, Call("getRegistry", "", Undefined, Undefined),
                      Returned(<<>>, Undefined))
    /\ UNCHANGED <<heap, pending, done>>

\* new Registry(): an object with an empty #entries Map of its own (lines
\* 14-15), which the caller holds from then on.
NewRegistry(c) ==
    /\ Len(heap) < MaxRegistries
    /\ heap' = Append(heap, <<>>)
    /\ handle' = [handle EXCEPT ![c] = Len(heap) + 1]
    /\ last' = Record(c, Call("new", "", Undefined, Undefined),
                      Returned(<<>>, Undefined))
    /\ UNCHANGED <<pending, done>>

Register(c, name, instance, type) ==
    /\ handle[c] # 0
    /\ Apply(c, Call("register", name, instance, type),
             register(heap[handle[c]], name, instance, type))

Get(c, name) ==
    /\ handle[c] # 0
    /\ Apply(c, Call("get", name, Undefined, Undefined), get(heap[handle[c]], name))

GetEntry(c, name) ==
    /\ handle[c] # 0
    /\ Apply(c, Call("getEntry", name, Undefined, Undefined),
             getEntry(heap[handle[c]], name))

Has(c, name) ==
    /\ handle[c] # 0
    /\ Apply(c, Call("has", name, Undefined, Undefined), has(heap[handle[c]], name))

List(c) ==
    /\ handle[c] # 0
    /\ Apply(c, Call("list", "", Undefined, Undefined), list(heap[handle[c]]))

Clear(c) ==
    /\ handle[c] # 0
    /\ Apply(c, Call("clear", "", Undefined, Undefined), clear(heap[handle[c]]))

\* A caller's assignment to a field of the entry its getEntry call has just
\* returned: registry.getEntry(n).type = v. getEntry returns the value the
\* Map holds under the name (line 66), not a copy of it, and the fields of
\* RegistryEntry are not readonly (lines 4-9): the object written to is the
\* stored entry.
WriteEntry(c, field, v) ==
    /\ handle[c] # 0
    /\ last.by = c
    /\ last.op = "getEntry"
    /\ last.ret # Undefined
    /\ LET entry == [last.ret EXCEPT ![field] = v]
           entries == heap[handle[c]]
       IN  /\ heap' = [heap EXCEPT ![handle[c]] =
                         [i \in 1..Len(entries) |->
                            IF entries[i].key = last.name
                            THEN [key |-> entries[i].key, value |-> entry]
                            ELSE entries[i]]]
           /\ last' = Record(c, Call("writeEntry", last.name, Undefined, Undefined),
                             Returned(<<>>, entry))
    /\ UNCHANGED <<handle, pending, done>>

\* A caller's assignment to a field of an element of the array its list
\* call has just returned: registry.list()[i].type = v. The elements are
\* objects list builds for the call (lines 86-88): the Map holds none of
\* them.
WriteListed(c, i, field, v) ==
    /\ handle[c] # 0
    /\ last.by = c
    /\ last.op = "list"
    /\ i \in 1..Len(last.ret)
    /\ last' = Record(c, Call("writeListed", "", Undefined, Undefined),
                      Returned(<<>>, [last.ret EXCEPT ![i][field] = v]))
    /\ UNCHANGED <<heap, handle, pending, done>>

\* ------------------------------------------- register, statement by statement
\* pending[c] is the register call caller c is inside of: it has passed the
\* duplicate check and has not stored its entry yet.

Running(c) == pending[c] # NoCall

\* Faulty variant of CanRun: register is an async method that awaits
\* between its check and its store, other callers run in the meantime.
CanRun_Async(c) == ~Running(c)

\* The methods of Registry are synchronous (no async, no await, lines
\* 25-96): a caller's code runs only when no call is under way.
CanRun(c) == \A d \in Callers : ~Running(d)

\* Faulty variant of EnterRegister: a taken name is waited for instead of
\* rejected.
EnterRegister_Waits(c, name, instance, type) ==
    /\ CanRun(c)
    /\ ~MapHas(heap[handle[c]], name)
    /\ pending' = [pending EXCEPT ![c] = Call("register", name, instance, type)]
    /\ UNCHANGED <<heap, handle, last, done>>

\* Lines 26-28: the call ends here with the duplicate error, or goes on.
EnterRegister(c, name, instance, type) ==
    /\ CanRun(c)
    /\ LET out == registerCheck(heap[handle[c]], name)
       IN  IF out.threw # ""
           THEN Apply(c, Call("register", name, instance, type), out)
           ELSE /\ pending' = [pending EXCEPT ![c] =
                                 Call("register", name, instance, type)]
                /\ UNCHANGED <<heap, handle, last, done>>

\* Lines 30-42: the entry is stored and the call returns.
LeaveRegister(c) ==
    /\ Running(c)
    /\ LET call == pending[c]
           out == registerStore(heap[handle[c]], call.name, call.instance, call.type)
       IN  /\ heap' = [heap EXCEPT ![handle[c]] = out.entries]
           /\ last' = Record(c, call, out)
    /\ pending' = [pending EXCEPT ![c] = NoCall]
    /\ UNCHANGED <<handle, done>>

\* ---------------------------------------------------------------- inputs

\* Every call a caller can make, with the instances and type labels drawn
\* from the given sets.
Ops(c, instances, types) ==
    \/ GetRegistry(c)
    \/ \E n \in Names, x \in instances, t \in types : Register(c, n, x, t)
    \/ \E n \in Names : Get(c, n)
    \/ \E n \in Names : GetEntry(c, n)
    \/ \E n \in Names : Has(c, n)
    \/ List(c)
    \/ Clear(c)

\* Spec: two holders of the shared registry registering objects and null,
\* with and without a type label.
Instances == {objA, objB, Null}

TypeArgs == {Undefined, Str("Redis")}

Next == \E c \in Callers : Ops(c, Instances, TypeArgs)

Spec == Init /\ [][Next]_vars

\* SpecValues: one caller registering every kind of storable value without
\* a type label: objects of a named class, of an anonymous class and
\* without a constructor (Object.create(null)), and the falsy primitives.
objAnon == Obj(3, "Anon", "{}")

objBare == [tag |-> "object", val |-> "{}", ref |-> 4, hasCtor |-> FALSE, cls |-> ""]

Values == {objA, objB, objAnon, objBare, Num("0"), Str(""), Bool("false")}

NextValues == Ops("r1", Values, {Undefined})

SpecValues == Init /\ [][NextValues]_vars

\* SpecLabels: one caller registering an object and a number with no type
\* label, with the empty label and with the labels "Redis" and "Kafka".
Labels == {Undefined, Str(""), Str("Redis"), Str("Kafka")}

NextLabels == Ops("r1", {objA, Num("0")}, Labels)

SpecLabels == Init /\ [][NextLabels]_vars

\* SpecWrites: one caller registering two objects and writing to the fields
\* of the objects getEntry and list return to it.
WrittenNames == {"renamed"}

WrittenTypes == {"Hacked"}

NextWrites ==
    \/ Ops("r1", {objA, objB}, {Undefined})
    \/ \E v \in WrittenNames : WriteEntry("r1", "name", v)
    \/ \E v \in WrittenTypes : WriteEntry("r1", "type", v)
    \/ \E v \in {objB} : WriteEntry("r1", "instance", v)
    \/ \E i \in 1..NumNames, v \in WrittenNames : WriteListed("r1", i, "name", v)
    \/ \E i \in 1..NumNames, v \in WrittenTypes : WriteListed("r1", i, "type", v)

SpecWrites == Init /\ [][NextWrites]_vars

\* SpecSteps: both callers hold the shared registry and call it in any
\* order, register running as its two parts.
InitSteps ==
    /\ heap = << <<>> >>
    /\ handle = [c \in Callers |-> registryInstance]
    /\ last = NoOutcome
    /\ pending = [c \in Callers |-> NoCall]
    /\ done = [c \in Callers |-> NoOutcome]

NextSteps ==
    \E c \in Callers :
        \/ \E n \in Names, x \in {objA, objB, Null} : EnterRegister(c, n, x, Undefined)
        \/ LeaveRegister(c)
        \/ CanRun(c) /\ \E n \in Names : Get(c, n)
        \/ CanRun(c) /\ \E n \in Names : GetEntry(c, n)
        \/ CanRun(c) /\ \E n \in Names : Has(c, n)
        \/ CanRun(c) /\ List(c)
        \/ CanRun(c) /\ Clear(c)

SpecSteps == InitSteps /\ [][NextSteps]_vars

\* SpecNew: two callers, each holding the shared registry or a Registry it
\* has created, registering two objects under one name.
NewNames == {"cache"}

NextNew ==
    \E c \in Callers :
        \/ GetRegistry(c)
        \/ NewRegistry(c)
        \/ \E n \in NewNames, x \in {objA, objB} : Register(c, n, x, Undefined)
        \/ \E n \in NewNames : Get(c, n)
        \/ \E n \in NewNames : GetEntry(c, n)
        \/ \E n \in NewNames : Has(c, n)
        \/ List(c)
        \/ Clear(c)

SpecNew == Init /\ [][NextNew]_vars

\* SpecRace: both callers hold the shared registry and each has scheduled
\* one register call for the same, not yet registered name (two tasks of
\* the event loop); the calls run in either order, each to completion.
InitRace ==
    /\ heap = << <<>> >>
    /\ handle = [c \in Callers |-> registryInstance]
    /\ last = NoOutcome
    /\ \E n \in Names :
         pending \in [Callers -> {Call("register", n, x, t) :
                                    x \in Instances, t \in TypeArgs}]
    /\ done = [c \in Callers |-> NoOutcome]

\* The event loop runs caller c's scheduled call: register is synchronous
\* and has no await, so its whole body is one step.
RunPending(c) ==
    /\ pending[c].op = "register"
    /\ LET out == register(heap[handle[c]], pending[c].name,
                           pending[c].instance, pending[c].type)
       IN  /\ heap' = [heap EXCEPT ![handle[c]] = out.entries]
           /\ last' = Record(c, pending[c], out)
           /\ done' = [done EXCEPT ![c] = Record(c, pending[c], out)]
    /\ pending' = [pending EXCEPT ![c] = NoCall]
    /\ UNCHANGED handle

NextRace == \E c \in Callers : RunPending(c)

SpecRace == InitRace /\ [][NextRace]_vars

\* ------------------------------------------------------------ properties

\* The Map of the registry getRegistry() returns.
Shared == heap[registryInstance]

\* Every name a caller may ask for, registered or not.
AllNames == {NamePool[i] : i \in DOMAIN NamePool} \cup {"", "nonexistent"}

\* Every instance value and every type argument of the model.
AllInstances == Instances \cup Values \cup {Undefined}

AllTypeArgs == TypeArgs \cup {Str("")}

DuplicateMessage(n) == "Instance '" \o n \o "' already registered"

NotFoundMessage(n) == "Instance '" \o n \o "' not found"

\* C1: after register(n, x) succeeds, get(n) returns the very reference x
\* (same address, not an equal copy), also for the falsy values 0, '' and
\* false; get(n) keeps returning that reference through every later call
\* other than clear(), and each get call returns what get yields in the
\* state it is called in.
C1_GetReturnsRegisteredReference ==
    [][ /\ (last'.op = "register" /\ last'.threw = "")
            => /\ get(Shared', last'.name).threw = ""
               /\ get(Shared', last'.name).ret = last'.instance
        /\ \A n \in Names :
            (get(Shared, n).threw = "" /\ last'.op # "clear")
            => /\ get(Shared', n).threw = ""
               /\ get(Shared', n).ret = get(Shared, n).ret
        /\ (last'.op = "get" /\ last'.threw = "")
            => last'.ret = MapGet(Shared, last'.name).instance
      ]_vars

\* C1 witness: get returned objB while an equal but distinct object objA
\* and the falsy value 0 or '' or false are around under other names.
C1_Witness ==
    /\ last.op = "get" /\ last.threw = "" /\ last.ret = objB
    /\ Len(Shared) = 2
    /\ \E i \in 1..Len(Shared) :
         Shared[i].value.instance \in {objA, Num("0"), Str(""), Bool("false")}

\* C2: for a registered name n, register(n, y, t) throws the duplicate-name
\* error naming n for every instance y and type argument t, and leaves
\* get(n) and getEntry(n).type as the first registration made them.
C2_DuplicateRejected ==
    /\ \A n \in Names, y \in AllInstances, t \in AllTypeArgs :
         has(Shared, n).ret
         => LET out == register(Shared, n, y, t)
            IN  /\ out.threw = "Error"
                /\ out.message = DuplicateMessage(n)
                /\ get(out.entries, n).ret = get(Shared, n).ret
                /\ getEntry(out.entries, n).ret.type = getEntry(Shared, n).ret.type
    /\ (last.op = "register" /\ last.threw = "Error")
         => last.message = DuplicateMessage(last.name)

\* C2 witness: a second register of "cache" with another instance and a
\* type label was rejected, and get still returns the first instance.
C2_Witness ==
    /\ last.op = "register"
    /\ last.name = "cache"
    /\ last.message = "Instance 'cache' already registered"
    /\ last.instance = objB
    /\ last.type = Str("Redis")
    /\ get(Shared, "cache").ret = objA
    /\ getEntry(Shared, "cache").ret.type = "TestClass"

\* C3: a register call that throws leaves every registry as it was: the
\* same names, the same entries (instance, type, constructor) and the same
\* list().
C3_FailedRegisterChangesNothing ==
    [][ (last'.op = "register" /\ last'.threw # "")
        => /\ heap' = heap
           /\ list(Shared').ret = list(Shared).ret
           /\ \A n \in AllNames : getEntry(Shared', n).ret = getEntry(Shared, n).ret
      ]_vars

\* C3 witness: a register call threw on a registry holding two entries.
C3_Witness ==
    /\ last.op = "register"
    /\ last.threw # ""
    /\ Len(list(Shared).ret) = 2

\* C4: for a name that is not registered, get throws the not-found error
\* naming it; it returns nothing, and the Map is left as it was.
C4_GetUnregisteredThrows ==
    /\ \A n \in AllNames :
         ~has(Shared, n).ret
         => /\ get(Shared, n).threw = "Error"
            /\ get(Shared, n).message = NotFoundMessage(n)
            /\ get(Shared, n).entries = Shared
    /\ (last.op = "get" /\ ~has(Shared, last.name).ret)
         => /\ last.threw = "Error"
            /\ last.message = NotFoundMessage(last.name)

\* C4 witness: get("session") threw while another name is registered.
C4_Witness ==
    /\ last.op = "get"
    /\ last.name = "session"
    /\ last.message = "Instance 'session' not found"
    /\ has(Shared, "cache").ret

\* C5: when n is not registered, has(n) is false, register(n, x) of an
\* object x returns, and has(n) is true right after it.
C5_HasFalseThenTrue ==
    [][ (last'.op = "register" /\ last'.instance.tag = "object"
           /\ ~MapHas(Shared, last'.name))
        => /\ has(Shared, last'.name).ret = FALSE
           /\ last'.threw = ""
           /\ has(Shared', last'.name).ret = TRUE
      ]_vars

\* C5 witness: an object without a constructor was just registered under
\* a second name.
C5_Witness ==
    /\ last.op = "register"
    /\ last.threw = ""
    /\ last.instance = objBare
    /\ has(Shared, last.name).ret
    /\ Len(Shared) = 2

ListNamesUnique(l) == \A i, j \in 1..Len(l) : l[i].name = l[j].name => i = j

\* C6: the Map holds at most one entry per name and list() never has two
\* elements with the same name; a register call never changes the entry
\* of a name that is already present.
C6_OneEntryPerName ==
    /\ [](/\ ListNamesUnique(list(Shared).ret)
          /\ \A i, j \in 1..Len(Shared) : Shared[i].key = Shared[j].key => i = j)
    /\ [][ \A n \in Names :
             (last'.op = "register" /\ has(Shared, n).ret)
             => getEntry(Shared', n).ret = getEntry(Shared, n).ret
         ]_vars

\* C6 witness: a register call on a present name left the Map with both
\* names, each once.
C6_Witness ==
    /\ last.op = "register"
    /\ last.threw = "Error"
    /\ Len(list(Shared).ret) = 2
    /\ {list(Shared).ret[i].name : i \in 1..2} = {"cache", "session"}

\* C7: once both scheduled register calls of the same unregistered name
\* have run, exactly one returned and the other threw the duplicate-name
\* error, and get(n) returns the instance of the call that returned.
C7_ExactlyOneSucceeds ==
    (\A c \in Callers : done[c].op = "register")
    => \E w \in Callers :
         /\ done[w].threw = ""
         /\ get(Shared, done[w].name).ret = done[w].instance
         /\ \A l \in Callers \ {w} :
              /\ done[l].threw = "Error"
              /\ done[l].message = DuplicateMessage(done[l].name)

\* The same race when neither caller passes null or undefined: register
\* has no await, so the first call to run stores its entry and the second
\* meets the duplicate check.
RaceOfDefinedInstances ==
    (\A c \in Callers :
        /\ done[c].op = "register"
        /\ done[c].instance.tag \notin {"null", "undefined"})
    => \E w \in Callers :
         /\ done[w].threw = ""
         /\ get(Shared, done[w].name).ret = done[w].instance
         /\ \A l \in Callers \ {w} :
              /\ done[l].threw = "Error"
              /\ done[l].message = DuplicateMessage(done[l].name)

\* C8: every getRegistry() call yields the one registryInstance, and what
\* one holder registers or clears is seen through every other reference.
C8_SharedRegistry ==
    /\ [](\A c \in Callers : handle[c] \in {0, registryInstance})
    /\ [][ /\ last'.op = "getRegistry" => handle'[last'.by] = registryInstance
           /\ (last'.op = "register" /\ last'.threw = "")
               => \A c \in Callers :
                    handle'[c] # 0
                    => /\ has(heap'[handle'[c]], last'.name).ret
                       /\ get(heap'[handle'[c]], last'.name).ret = last'.instance
           /\ last'.op = "clear"
               => \A c \in Callers :
                    handle'[c] # 0 => list(heap'[handle'[c]]).ret = <<>>
         ]_vars

\* C8 witness: r1 registered an instance and r2, which holds a reference
\* of its own call, sees it.
C8_Witness ==
    /\ last.by = "r1"
    /\ last.op = "register"
    /\ last.threw = ""
    /\ handle["r2"] # 0
    /\ has(heap[handle["r2"]], last.name).ret
    /\ get(heap[handle["r2"]], last.name).ret = last.instance

\* C9: right after clear(), has(n) is false, getEntry(n) is undefined and
\* get(n) throws the not-found error for every name n, and list() is empty.
C9_ClearRemovesAll ==
    last.op = "clear"
    => /\ list(Shared).ret = <<>>
       /\ \A n \in AllNames :
            /\ has(Shared, n).ret = FALSE
            /\ getEntry(Shared, n).ret = Undefined
            /\ get(Shared, n).threw = "Error"
            /\ get(Shared, n).message = NotFoundMessage(n)

\* C9 witness: clear() has just returned.
C9_Witness ==
    /\ last.op = "clear"
    /\ last.threw = ""
    /\ list(Shared).ret = <<>>
    /\ ~has(Shared, "cache").ret

\* C10: clear() never throws; on an empty Map it changes nothing, and a
\* second clear() leaves what the first one left.
C10_ClearIdempotent ==
    /\ clear(Shared).threw = ""
    /\ Shared = <<>> => clear(Shared).entries = Shared
    /\ clear(clear(Shared).entries).threw = ""
    /\ clear(clear(Shared).entries).entries = clear(Shared).entries
    /\ last.op = "clear" => last.threw = ""

\* C10 witness: clear() returned and calling it again changes nothing.
C10_Witness ==
    /\ last.op = "clear"
    /\ Shared = <<>>
    /\ clear(Shared).entries = Shared
    /\ clear(Shared).threw = ""

\* The #entries of a Registry that new Registry() has just built.
FreshEntries == <<>>

\* The values register stores: everything but null and undefined.
Storable(x) == x.tag \notin {"null", "undefined"}

\* C11: right after clear() the registry is in the state of a new
\* Registry: every call gives the outcome and leaves the Map it would on
\* a new one (so every sequence of calls does), and register(n, y) of any
\* name returns and makes get(n) return y.
C11_ClearedIsFresh ==
    last.op = "clear"
    => /\ Shared = FreshEntries
       /\ clear(Shared) = clear(FreshEntries)
       /\ list(Shared) = list(FreshEntries)
       /\ \A n \in AllNames :
            /\ get(Shared, n) = get(FreshEntries, n)
            /\ getEntry(Shared, n) = getEntry(FreshEntries, n)
            /\ has(Shared, n) = has(FreshEntries, n)
       /\ \A n \in Names, y \in AllInstances, t \in AllTypeArgs :
            LET out == register(Shared, n, y, t)
            IN  /\ out = register(FreshEntries, n, y, t)
                /\ Storable(y) => /\ out.threw = ""
                                  /\ get(out.entries, n).ret = y

\* C11 witness: after clear(), "cache" can be registered with objB and get
\* then returns objB.
C11_Witness ==
    /\ last.op = "clear"
    /\ register(Shared, "cache", objB, Undefined).threw = ""
    /\ get(register(Shared, "cache", objB, Undefined).entries, "cache").ret = objB

\* C12: list() has exactly one {name, type} pair per registered name: as
\* many elements as names for which has is true, the same set of names,
\* for each name the type getEntry reports, the fields name and type and
\* no other, and the empty sequence, without error, on an empty registry.
C12_ListIsTheRegisteredNames ==
    LET l == list(Shared).ret
        present == {n \in AllNames : has(Shared, n).ret}
    IN  /\ list(Shared).threw = ""
        /\ Len(l) = Cardinality(present)
        /\ {l[i].name : i \in 1..Len(l)} = present
        /\ \A i \in 1..Len(l) :
             /\ DOMAIN l[i] = {"name", "type"}
             /\ l[i].type = getEntry(Shared, l[i].name).ret.type
        /\ Shared = <<>> => l = <<>>
        /\ last.op = "list" => last.threw = "" /\ last.ret = l

\* C12 witness: list() returned two pairs with different types.
C12_Witness ==
    /\ last.op = "list"
    /\ Len(last.ret) = 2
    /\ last.ret[1] = [name |-> "session", type |-> "Redis"]
    /\ last.ret[2] = [name |-> "cache", type |-> "TestClass"]

\* The type register records: the label when one is given and truthy,
\* else the name of the instance's constructor, else "Unknown".
RecordedType(x, t) == IF Truthy(t) THEN t.val ELSE constructorName(x)

\* C13: getEntry never throws; for a registered name it returns the entry
\* with that name, the instance get returns (the registered reference) and
\* the type recorded at registration; for any other name it returns
\* undefined.
C13_GetEntryNeverThrows ==
    /\ \A n \in AllNames :
         LET e == getEntry(Shared, n)
         IN  /\ e.threw = ""
             /\ e.entries = Shared
             /\ has(Shared, n).ret
                  => /\ e.ret # Undefined
                     /\ e.ret.name = n
                     /\ e.ret.instance = get(Shared, n).ret
             /\ ~has(Shared, n).ret => e.ret = Undefined
    /\ (last.op = "register" /\ last.threw = "")
         => LET e == getEntry(Shared, last.name).ret
            IN  /\ e.name = last.name
                /\ e.instance = last.instance
                /\ e.type = RecordedType(last.instance, last.type)
    /\ last.op = "getEntry"
         => /\ last.threw = ""
            /\ last.ret = getEntry(Shared, last.name).ret

\* C13 witness: getEntry returned the entry of objB while another name
\* holds the equal object objA and a third name is absent.
C13_Witness ==
    /\ last.op = "getEntry"
    /\ last.ret # Undefined
    /\ last.ret.instance = objB
    /\ \E n \in Names : has(Shared, n).ret /\ get(Shared, n).ret = objA
    /\ getEntry(Shared, "nonexistent").ret = Undefined

\* C14: has never throws and returns a boolean; has(n) is false on a new
\* registry, and after every call it is true exactly when that call was a
\* register(n, ...) that returned, or has(n) was true before it and the
\* call was not clear(): true iff a register(n, ...) has succeeded since
\* the last clear().
C14_HasIffRegisteredSinceClear ==
    /\ \A n \in AllNames : has(Shared, n).ret = FALSE
    /\ [](/\ \A n \in AllNames :
               /\ has(Shared, n).threw = ""
               /\ has(Shared, n).ret \in BOOLEAN
               /\ has(Shared, n).entries = Shared
          /\ last.op = "has"
               => /\ last.threw = ""
                  /\ last.ret = has(Shared, last.name).ret)
    /\ [][ \A n \in AllNames :
             has(Shared', n).ret
             = \/ (last'.op = "register" /\ last'.threw = "" /\ last'.name = n)
               \/ (has(Shared, n).ret /\ last'.op # "clear")
         ]_vars

\* C14 witness: has answered true for a name that holds the falsy value 0
\* and the other name is absent.
C14_Witness ==
    /\ last.op = "has"
    /\ last.ret = TRUE
    /\ get(Shared, last.name).ret = Num("0")
    /\ \E n \in Names : ~has(Shared, n).ret

\* The type list() shows for name n.
ListedTypes(n) ==
    LET l == list(Shared).ret
    IN  {l[i].type : i \in {j \in 1..Len(l) : l[j].name = n}}

\* C15: after register(n, x, t) with a type label t (a string, the empty
\* string included) returned, getEntry(n).type and the type list() shows
\* for n are t.
C15_SuppliedLabelStored ==
    (last.op = "register" /\ last.threw = "" /\ last.type.tag = "string")
    => /\ getEntry(Shared, last.name).ret.type = last.type.val
       /\ ListedTypes(last.name) = {last.type.val}

\* The same for the labels that are not empty: those are stored as given,
\* whatever the runtime type of the instance.
NonEmptyLabelStored ==
    (last.op = "register" /\ last.threw = "" /\ last.type.tag = "string"
       /\ last.type.val # "")
    => /\ getEntry(Shared, last.name).ret.type = last.type.val
       /\ ListedTypes(last.name) = {last.type.val}

\* C16: after register(n, x) without a type label of an x whose
\* constructor has a non-empty name C, getEntry(n).type is C.
C16_TypeFromConstructorName ==
    (last.op = "register" /\ last.threw = "" /\ last.type = Undefined
       /\ last.instance.hasCtor /\ FunctionName(last.instance.cls) # "")
    => /\ getEntry(Shared, last.name).ret.type = FunctionName(last.instance.cls)
       /\ ListedTypes(last.name) = {FunctionName(last.instance.cls)}

\* C16 witness: an instance of TestClass registered without a label has
\* the type "TestClass".
C16_Witness ==
    /\ last.op = "register"
    /\ last.threw = ""
    /\ last.type = Undefined
    /\ last.instance = objA
    /\ getEntry(Shared, last.name).ret.type = "TestClass"

\* C17: the only errors are the duplicate-name error of register and the
\* not-found error of get: register of a name that is not registered
\* returns for every instance (null, undefined and primitives included)
\* and every type argument, and no call ends in another error.
C17_OnlyTwoErrors ==
    /\ [][ (last'.op = "register" /\ ~has(Shared, last'.name).ret)
           => last'.threw = ""
         ]_vars
    /\ [](last.threw # ""
           => \/ last.op = "register" /\ last.message = DuplicateMessage(last.name)
              \/ last.op = "get" /\ last.message = NotFoundMessage(last.name))

\* Apart from null and undefined every instance is accepted under a free
\* name, and the two errors of the registry are the only other ones.
OnlyTwoErrorsForStorable ==
    /\ \A n \in Names, x \in AllInstances, t \in AllTypeArgs :
         (~has(Shared, n).ret /\ Storable(x)) => register(Shared, n, x, t).threw = ""
    /\ (last.threw # "" /\ Storable(last.instance))
         => \/ last.op = "register" /\ last.message = DuplicateMessage(last.name)
            \/ last.op = "get" /\ last.message = NotFoundMessage(last.name)

\* The type labels in use: those list() shows and those of the entries.
TypesInUse ==
    {list(Shared).ret[i].type : i \in 1..Len(list(Shared).ret)}
    \cup {Shared[i].value.type : i \in 1..Len(Shared)}

\* C18: names registered with the same type label each keep their own
\* instance: a register that returns makes get of its name return its
\* instance and leaves get of every other name as it was, whatever the
\* labels; and list() has as many elements of type t as there are
\* registered names whose entry has type t.
C18_SameLabelManyNames ==
    /\ [](\A t \in TypesInUse :
            Cardinality({i \in 1..Len(list(Shared).ret) : list(Shared).ret[i].type = t})
            = Cardinality({n \in AllNames :
                             /\ has(Shared, n).ret
                             /\ getEntry(Shared, n).ret.type = t}))
    /\ [][ (last'.op = "register" /\ last'.threw = "")
           => /\ get(Shared', last'.name).ret = last'.instance
              /\ \A m \in Names \ {last'.name} :
                   /\ get(Shared', m).threw = get(Shared, m).threw
                   /\ get(Shared', m).ret = get(Shared, m).ret
         ]_vars

\* C18 witness: two names are registered with the label "Redis", one
\* holding objA and the other objB, and list() has two "Redis" elements.
C18_Witness ==
    /\ Len(Shared) = 2
    /\ \A i \in 1..2 : list(Shared).ret[i].type = "Redis"
    /\ get(Shared, "cache").ret = objA
    /\ get(Shared, "session").ret = objB

\* C19: an entry leaves the registry through clear() only: across every
\* call that is not clear(), returning or throwing, a name that has is
\* true for keeps has true and get keeps returning the same reference.
C19_NoEviction ==
    [][ \A n \in Names :
          has(Shared, n).ret
          => /\ ~has(Shared', n).ret => last'.op = "clear"
             /\ last'.op # "clear"
                  => /\ has(Shared', n).ret
                     /\ get(Shared', n).threw = ""
                     /\ get(Shared', n).ret = get(Shared, n).ret
      ]_vars

\* C19 witness: "cache" still holds objA after a get of it, with the
\* other name registered as well.
C19_Witness ==
    /\ last.op = "get"
    /\ last.name = "cache"
    /\ last.ret = objA
    /\ has(Shared, "cache").ret
    /\ get(Shared, "cache").ret = objA
    /\ has(Shared, "session").ret

\* C20: the name and the type of an entry are fixed by the register call
\* that stores it: getEntry(n).name is n and getEntry(n).type the type
\* computed in that call, and both stay so across every later call other
\* than clear().
C20_NameAndTypeFixed ==
    [][ /\ (last'.op = "register" /\ last'.threw = "")
            => /\ getEntry(Shared', last'.name).ret.name = last'.name
               /\ getEntry(Shared', last'.name).ret.type
                    = RecordedType(last'.instance, last'.type)
        /\ \A n \in Names :
             (has(Shared, n).ret /\ last'.op # "clear")
             => /\ getEntry(Shared', n).ret # Undefined
                /\ getEntry(Shared', n).ret.name = n
                /\ getEntry(Shared', n).ret.type = getEntry(Shared, n).ret.type
      ]_vars

\* C20 witness: a later register of the same name with the label "Redis"
\* was refused and the entry still has its name and its type "TestClass".
C20_Witness ==
    /\ last.op = "register"
    /\ last.threw = "Error"
    /\ last.type = Str("Redis")
    /\ getEntry(Shared, last.name).ret.name = last.name
    /\ getEntry(Shared, last.name).ret.type = "TestClass"
    /\ Len(Shared) = 2

\* C21: the registry's recorded state changes only through register and
\* clear: a caller's write to a field (name, type, instance) of the object
\* getEntry(n) returned, or of an element list() returned, changes nothing
\* of what getEntry, get, has and list report afterwards.
C21_CallerWritesChangeNothing ==
    [][last'.op \in {"writeEntry", "writeListed"} =>
         /\ list(Shared').ret = list(Shared).ret
         /\ \A n \in AllNames :
              /\ getEntry(Shared', n).ret = getEntry(Shared, n).ret
              /\ get(Shared', n).threw = get(Shared, n).threw
              /\ get(Shared', n).ret = get(Shared, n).ret
              /\ has(Shared', n).ret = has(Shared, n).ret]_vars

\* What holds of the claim: the elements of list() are the caller's own, a
\* write to them leaves the registry as it was; and no write to an entry
\* changes which names are registered.
ListedWritesStayLocal ==
    [][/\ last'.op = "writeListed" => Shared' = Shared
       /\ last'.op = "writeEntry" =>
            \A n \in AllNames : has(Shared', n).ret = has(Shared, n).ret]_vars

\* The instance of the last call is a value no constructor name can be read
\* from: it has no constructor, or its constructor's name is empty.
Nameless(x) == ~x.hasCtor \/ FunctionName(x.cls) = ""

\* C22: after register(n, x) without a type label of an x that has no
\* constructor, or whose constructor has an empty name (an anonymous
\* class), the stored type is "Unknown".
C22_UnknownWhenNoName ==
    (last.op = "register" /\ last.threw = "" /\ last.type = Undefined
       /\ Nameless(last.instance))
    => /\ getEntry(Shared, last.name).ret.type = "Unknown"
       /\ ListedTypes(last.name) = {"Unknown"}

\* C22 witness: an object without a constructor was registered without a
\* label, next to an instance of an anonymous class, and both have the
\* type "Unknown".
C22_Witness ==
    /\ last.op = "register"
    /\ last.threw = ""
    /\ last.type = Undefined
    /\ last.instance = objBare
    /\ getEntry(Shared, last.name).ret.type = "Unknown"
    /\ \E n \in Names :
         /\ has(Shared, n).ret
         /\ getEntry(Shared, n).ret.instance = objAnon
         /\ getEntry(Shared, n).ret.type = "Unknown"

Primitive(x) == x.tag \in {"number", "string", "boolean"}

\* C23: after register(n, x) without a type label of a primitive x (a
\* number, a string or a boolean), the stored type is "Unknown".
C23_PrimitiveIsUnknown ==
    (last.op = "register" /\ last.threw = "" /\ last.type = Undefined
       /\ Primitive(last.instance))
    => getEntry(Shared, last.name).ret.type = "Unknown"

\* The name of the wrapper class a primitive's .constructor yields.
WrapperName(x) ==
    CASE x.tag = "number" -> "Number"
      [] x.tag = "string" -> "String"
      [] x.tag = "boolean" -> "Boolean"

\* C23 as the code has it: after register(n, x) without a type label of a
\* primitive x, the stored type is the name of the primitive's wrapper
\* class: "Number", "String" or "Boolean".
C23_PrimitiveIsWrapperName ==
    (last.op = "register" /\ last.threw = "" /\ last.type = Undefined
       /\ Primitive(last.instance))
    => /\ getEntry(Shared, last.name).ret.type = WrapperName(last.instance)
       /\ getEntry(Shared, last.name).ret.type # "Unknown"
       /\ ListedTypes(last.name) = {WrapperName(last.instance)}

\* C23 witness: the number 0 was registered without a label and has the
\* type "Number", next to a boolean with the type "Boolean".
C23_Witness ==
    /\ last.op = "register"
    /\ last.threw = ""
    /\ last.type = Undefined
    /\ last.instance = Num("0")
    /\ getEntry(Shared, last.name).ret.type = "Number"
    /\ \E n \in Names :
         /\ has(Shared, n).ret
         /\ getEntry(Shared, n).ret.instance = Bool("false")
         /\ getEntry(Shared, n).ret.type = "Boolean"

\* Two records of a call and its outcome are the same record.
SameOutcome(a, b) ==
    /\ a.by = b.by
    /\ a.op = b.op
    /\ a.name = b.name
    /\ a.instance = b.instance
    /\ a.type = b.type
    /\ a.threw = b.threw
    /\ a.message = b.message
    /\ a.ret = b.ret

\* The outcome of a call made as one step on the Map m.
Atomic(call, m) ==
    CASE call.op = "register" -> register(m, call.name, call.instance, call.type)
      [] call.op = "get" -> get(m, call.name)
      [] call.op = "getEntry" -> getEntry(m, call.name)
      [] call.op = "has" -> has(m, call.name)
      [] call.op = "list" -> list(m)
      [] call.op = "clear" -> clear(m)

\* C24: under every interleaving of calls by the two holders of the shared
\* registry each call takes effect as one atomic step: a step either
\* leaves the Map and the last outcome alone, or it is the whole of one
\* call applied to the Map as it was (outcome and Map after it are those
\* of the operation run alone); every holder sees the one Map; every
\* stored entry is complete; and get(n) gives the instance of the latest
\* successful register(n, ...) since the last clear().
C24_AtomicSteps ==
    /\ [][\/ Shared' = Shared /\ SameOutcome(last', last)
          \/ LET out == Atomic(last', Shared)
             IN  /\ Shared' = out.entries
                 /\ last'.threw = out.threw
                 /\ last'.message = out.message
                 /\ last'.ret = out.ret]_vars
    /\ [][\A n \in Names :
            IF last'.op = "register" /\ last'.threw = "" /\ last'.name = n
            THEN get(Shared', n).ret = last'.instance /\ get(Shared', n).threw = ""
            ELSE IF last'.op = "clear"
            THEN get(Shared', n).threw = "Error"
            ELSE /\ get(Shared', n).ret = get(Shared, n).ret
                 /\ get(Shared', n).threw = get(Shared, n).threw]_vars
    /\ [](\A c \in Callers : heap[handle[c]] = Shared)
    /\ [](\A i \in 1..Len(Shared) :
            /\ DOMAIN Shared[i].value = {"name", "instance", "type", "constructor"}
            /\ Shared[i].value.name = Shared[i].key
            /\ Storable(Shared[i].value.instance))

\* C24 witness: r2's register of a name has succeeded and its instance is
\* what get gives, and r1 has since entered a register call of another
\* name with another instance and not left it yet.
C24_Witness ==
    /\ last.by = "r2"
    /\ last.op = "register"
    /\ last.threw = ""
    /\ get(Shared, last.name).ret = last.instance
    /\ Running("r1")
    /\ pending["r1"].name # last.name
    /\ pending["r1"].instance # last.instance
    /\ Len(Shared) = 1

\* C25: the order of list() is stable: a call that is not a successful
\* register and not a clear (a get, has, getEntry or list, or a register
\* that fails) leaves list() the same sequence, so two list() calls with
\* only such calls between them return equal sequences.
C25_ListOrderStable ==
    [][(last'.op \in {"get", "has", "getEntry", "list"}
          \/ (last'.op = "register" /\ last'.threw # ""))
       => /\ list(Shared').ret = list(Shared).ret
          /\ (last'.op = "list" /\ last.op = "list") => last'.ret = last.ret]_vars

\* C25 witness: r2's register of a taken name has just failed while two
\* names are registered, and list() gives them in the order they have in
\* the Map.
C25_Witness ==
    /\ last.by = "r2"
    /\ last.op = "register"
    /\ last.threw = "Error"
    /\ Len(list(Shared).ret) = 2
    /\ \A i \in 1..2 : list(Shared).ret[i].name = Shared[i].key

\* The class handle reading .constructor on the value x yields, Object
\* standing in when there is none.
HandleOf(x) == IF x.hasCtor THEN x.cls ELSE "Object"

\* The Map m with the constructor field of every entry replaced by h.
WithHandle(m, h) ==
    [i \in 1..Len(m) |->
       [key |-> m[i].key, value |-> [m[i].value EXCEPT !.constructor = h]]]

\* C26: entry.constructor is the constructor of the registered instance, or
\* Object when the instance has none, with and without a type label; and
\* no result of register, get, has or list depends on it: with any other
\* handle in its place they are the same.
C26_HandleIsConstructorAndInert ==
    /\ \A i \in 1..Len(Shared) :
         Shared[i].value.constructor = HandleOf(Shared[i].value.instance)
    /\ \A n \in Names, x \in AllInstances, t \in Labels :
         LET out == register(Shared, n, x, t)
         IN  out.threw = "" =>
               getEntry(out.entries, n).ret.constructor = HandleOf(x)
    /\ \A h \in {"Object", "Other"} :
         LET other == WithHandle(Shared, h)
         IN  /\ list(other).ret = list(Shared).ret
             /\ \A n \in AllNames :
                  /\ has(other, n).ret = has(Shared, n).ret
                  /\ get(other, n).ret = get(Shared, n).ret
                  /\ get(other, n).threw = get(Shared, n).threw
                  /\ \A x \in Instances, t \in TypeArgs :
                       /\ register(other, n, x, t).threw = register(Shared, n, x, t).threw
                       /\ register(other, n, x, t).message
                            = register(Shared, n, x, t).message

\* C26 witness: the same object was registered under one name with the
\* label "Redis" and a number under another name without a label; the
\* handles are TestClass and Number.
C26_Witness ==
    /\ Len(Shared) = 2
    /\ Shared[1].value.instance = objA
    /\ Shared[1].value.type = "Redis"
    /\ Shared[1].value.constructor = "TestClass"
    /\ Shared[2].value.instance = Num("0")
    /\ Shared[2].value.type = "Number"
    /\ Shared[2].value.constructor = "Number"

\* C27: no operation blocks: in every reachable state a caller inside
\* register can finish it, and when no call is under way every caller can
\* make every call (register, get, has, getEntry, list, clear) with every
\* argument; so some caller can always take a step and none is stuck.
C27_NoOperationBlocks ==
    /\ \A c \in Callers : Running(c) => ENABLED LeaveRegister(c)
    /\ (\A c \in Callers : ~Running(c)) =>
         \A c \in Callers :
            /\ \A n \in Names, x \in {objA, Null} :
                 ENABLED EnterRegister(c, n, x, Undefined)
            /\ \A n \in Names :
                 /\ ENABLED Get(c, n)
                 /\ ENABLED GetEntry(c, n)
                 /\ ENABLED Has(c, n)
            /\ ENABLED List(c)
            /\ ENABLED Clear(c)
    /\ Cardinality({c \in Callers : Running(c)}) <= 1

\* C27 witness: every name but one is registered, r1 is inside a register
\* call of a null instance, which will raise, and r2's last call raised
\* the not-found error.
C27_Witness ==
    /\ Running("r1")
    /\ pending["r1"].instance = Null
    /\ last.by = "r2"
    /\ last.op = "get"
    /\ last.threw = "Error"
    /\ Len(Shared) = NumNames - 1

\* C28: get, has, getEntry and list never change the Map, whether they
\* return or raise: the registered names, their order and every entry's
\* instance, type and constructor are after the call what they were
\* before.
C28_ReadsChangeNothing ==
    [][last'.op \in {"get", "has", "getEntry", "list"} =>
         /\ heap' = heap
         /\ handle' = handle
         /\ \A n \in AllNames : MapGet(Shared', n) = MapGet(Shared, n)]_vars

\* C28 witness: a get of a name that is not registered has just raised
\* while another name is registered with its whole entry.
C28_Witness ==
    /\ last.op = "get"
    /\ last.threw = "Error"
    /\ Len(Shared) = 1
    /\ Shared[1].value = newEntry(Shared[1].key, objB, Str("Redis"))

\* C29: a successful register(n, x, t) changes only the entry of n: for
\* every other name m, has(m), get(m) and getEntry(m) are as before, and
\* list() is the list of before with one element more, the one of n.
C29_RegisterChangesOnlyItsName ==
    [][(last'.op = "register" /\ last'.threw = "") =>
         /\ \A m \in AllNames \ {last'.name} :
              /\ has(Shared', m).ret = has(Shared, m).ret
              /\ get(Shared', m).ret = get(Shared, m).ret
              /\ get(Shared', m).threw = get(Shared, m).threw
              /\ getEntry(Shared', m).ret = getEntry(Shared, m).ret
         /\ Len(list(Shared').ret) = Len(list(Shared).ret) + 1
         /\ SelectSeq(list(Shared').ret, LAMBDA e : e.name # last'.name)
              = list(Shared).ret
         /\ Cardinality({i \in 1..Len(list(Shared').ret) :
                           list(Shared').ret[i].name = last'.name}) = 1]_vars

\* C29 witness: a second name has just been registered, after another
\* name that holds a different instance under a label.
C29_Witness ==
    /\ last.op = "register"
    /\ last.threw = ""
    /\ last.instance = objA
    /\ last.type = Undefined
    /\ Len(Shared) = 2
    /\ Shared[2].key = last.name
    /\ Shared[1].value.instance = objB
    /\ Shared[1].value.type = "Redis"

\* C30: has, getEntry and get agree on every name in every reachable
\* state: has(n) is true exactly when getEntry(n) is not undefined and
\* exactly when get(n) returns, and then get(n) is getEntry(n).instance.
C30_ProbesAgree ==
    \A n \in AllNames :
       /\ has(Shared, n).ret <=> getEntry(Shared, n).ret # Undefined
       /\ has(Shared, n).ret <=> get(Shared, n).threw = ""
       /\ has(Shared, n).ret => get(Shared, n).ret = getEntry(Shared, n).ret.instance
       /\ getEntry(Shared, n).threw = ""
       /\ has(Shared, n).threw = ""

\* C30 witness: one name holds the falsy instance false and the other name
\* is not registered: has is true, getEntry gives an entry and get gives
\* false for the first, has is false, getEntry undefined and get raises
\* for the other.
C30_Witness ==
    /\ Len(Shared) = 1
    /\ has(Shared, Shared[1].key).ret
    /\ getEntry(Shared, Shared[1].key).ret.instance = Bool("false")
    /\ get(Shared, Shared[1].key).ret = Bool("false")
    /\ \E n \in Names :
         /\ ~has(Shared, n).ret
         /\ getEntry(Shared, n).ret = Undefined
         /\ get(Shared, n).threw = "Error"

\* C31: list() gives the entries in the order of their successful
\* registration since the last clear(): a successful register puts its
\* element at the end of the list, behind every name registered before it,
\* a failed register moves nothing, and clear() starts the order anew.
C31_ListInRegistrationOrder ==
    [][/\ (last'.op = "register" /\ last'.threw = "")
           => list(Shared').ret
                = Append(list(Shared).ret,
                         [name |-> last'.name,
                          type |-> RecordedType(last'.instance, last'.type)])
       /\ (last'.op = "register" /\ last'.threw # "")
           => list(Shared').ret = list(Shared).ret
       /\ last'.op = "clear" => list(Shared').ret = <<>>]_vars

\* C31 witness: "session" was registered before "cache", whose register
\* has just returned, and list() gives "session" first.
C31_Witness ==
    /\ last.op = "register"
    /\ last.threw = ""
    /\ last.name = "cache"
    /\ Len(list(Shared).ret) = 2
    /\ list(Shared).ret[1].name = "session"
    /\ list(Shared).ret[2].name = "cache"

\* C32: names are unique, instances are not: in every reachable state an
\* instance x that a name a holds can be registered under every free name
\* b; the call returns, get(a) and get(b) then return the identical
\* reference x, and list() has one element for a and one for b.
C32_SameInstanceTwoNames ==
    \A a, b \in Names :
       (has(Shared, a).ret /\ ~has(Shared, b).ret) =>
          LET x == get(Shared, a).ret
              out == register(Shared, b, x, Undefined)
              l == list(out.entries).ret
          IN  /\ out.threw = ""
              /\ get(out.entries, a).ret = x
              /\ get(out.entries, b).ret = x
              /\ get(out.entries, a).ret.ref = get(out.entries, b).ret.ref
              /\ Cardinality({i \in 1..Len(l) : l[i].name = a}) = 1
              /\ Cardinality({i \in 1..Len(l) : l[i].name = b}) = 1
              /\ Len(l) = Len(list(Shared).ret) + 1

\* C32 witness: objA is registered under "cache" and under "session", the
\* second register has just returned, both gets give objA and list() has
\* two elements.
C32_Witness ==
    /\ last.op = "register"
    /\ last.threw = ""
    /\ last.instance = objA
    /\ get(Shared, "cache").ret = objA
    /\ get(Shared, "session").ret = objA
    /\ get(Shared, "cache").ret.ref = get(Shared, "session").ret.ref
    /\ Len(list(Shared).ret) = 2

\* C33: registries are independent: new Registry() gives an object that is
\* not the shared registryInstance and that no other caller holds, with an
\* empty Map of its own; and a call on one registry (register and clear
\* above all) leaves has, get, getEntry and list of every other registry
\* as they were.
C33_RegistriesIndependent ==
    /\ [][last'.op = "new" =>
            /\ handle'[last'.by] # registryInstance
            /\ \A d \in Callers \ {last'.by} : handle'[d] # handle'[last'.by]
            /\ heap'[handle'[last'.by]] = <<>>
            /\ \A i \in 1..Len(heap) : heap'[i] = heap[i]]_vars
    /\ [][last'.op \in {"register", "clear", "get", "has", "getEntry", "list"} =>
            \A i \in 1..Len(heap) :
               i # handle[last'.by] =>
                  /\ list(heap'[i]).ret = list(heap[i]).ret
                  /\ \A n \in AllNames :
                       /\ has(heap'[i], n).ret = has(heap[i], n).ret
                       /\ get(heap'[i], n).ret = get(heap[i], n).ret
                       /\ get(heap'[i], n).threw = get(heap[i], n).threw
                       /\ getEntry(heap'[i], n).ret = getEntry(heap[i], n).ret]_vars

\* C33 witness: r1 holds the shared registry with objA under "cache", r2
\* holds a Registry it created and has just registered objB under "cache"
\* there; each registry gives its own instance.
C33_Witness ==
    /\ handle["r1"] = registryInstance
    /\ handle["r2"] \notin {0, registryInstance}
    /\ last.by = "r2"
    /\ last.op = "register"
    /\ last.threw = ""
    /\ get(heap[handle["r1"]], "cache").ret = objA
    /\ get(heap[handle["r2"]], "cache").ret = objB

\* C34: in every state the calls of the registry lead to, the name field of
\* each stored entry is the key it is stored under, so list(), which
\* reads the names from the entries, reports at each position the key of
\* that position, and a name is in list() exactly when has() is true for
\* it.
C34_EntryNameIsKey ==
    LET l == list(Shared).ret
    IN  /\ Len(l) = Len(Shared)
        /\ \A i \in 1..Len(Shared) :
             /\ Shared[i].value.name = Shared[i].key
             /\ l[i].name = Shared[i].key
             /\ getEntry(Shared, Shared[i].key).ret.name = Shared[i].key
        /\ \A n \in AllNames :
             has(Shared, n).ret <=> (\E i \in 1..Len(l) : l[i].name = n)

\* C34 witness: has() has just answered true for a name registered with
\* the label "Redis" next to a second name; both entries carry their key
\* as name.
C34_Witness ==
    /\ last.op = "has"
    /\ last.ret = TRUE
    /\ Len(Shared) = 2
    /\ getEntry(Shared, last.name).ret.type = "Redis"
    /\ getEntry(Shared, last.name).ret.name = last.name
    /\ \A i \in 1..2 : list(Shared).ret[i].name = Shared[i].key

====
